---------------------------- MODULE Spec2Model ----------------------------
(***************************************************************************)
(* cratesiover: query crates.io for the max_version of a crate, compare it *)
(* with the caller's version and report Behind / Equal / Ahead.            *)
(*                                                                         *)
(* Text is modelled as a sequence of one-character strings, so that        *)
(* splitting, token equality and version parsing are computed on the       *)
(* characters, as the code does.                                           *)
(***************************************************************************)
EXTENDS Integers, Sequences, FiniteSets, TLC

(***************************************************************************)
(* Bounds of the model.                                                    *)
(***************************************************************************)
\* numeric version components range over 0..MaxNum in the comparator check
MaxNum == 1
\* response texts of the extractor check are built from at most MaxPieces pieces
MaxPieces == 7

(***************************************************************************)
(* Text helpers.                                                           *)
(***************************************************************************)
Q == "\""

FieldName == <<"m", "a", "x", "_", "v", "e", "r", "s", "i", "o", "n">>

DigitChars == <<"0", "1", "2", "3", "4", "5", "6", "7", "8", "9">>

\* the identifier characters the model's texts use, in ASCII (byte) order, as
\* String's Ord compares
AsciiOrder == <<"-", "0", "1", "2", "3", "4", "5", "6", "7", "8", "9", "a", "b">>

IsDigit(c) == \E i \in 1..Len(DigitChars) : DigitChars[i] = c

DigitVal(c) == (CHOOSE i \in 1..Len(DigitChars) : DigitChars[i] = c) - 1

IsAlnumHyphen(c) == \E i \in 1..Len(AsciiOrder) : AsciiOrder[i] = c

ByteOf(c) == CHOOSE i \in 1..Len(AsciiOrder) : AsciiOrder[i] = c

\* std str::split(sep): the maximal runs between occurrences of sep; n
\* separators give n + 1 tokens, empty runs included
RECURSIVE SplitFrom(_, _, _, _)
SplitFrom(s, sep, cur, acc) ==
    IF s = <<>> THEN Append(acc, cur)
    ELSE IF Head(s) = sep THEN SplitFrom(Tail(s), sep, <<>>, Append(acc, cur))
    ELSE SplitFrom(Tail(s), sep, Append(cur, Head(s)), acc)

Split(s, sep) == SplitFrom(s, sep, <<>>, <<>>)

\* Iterator::skip_while(|x| x != name): drop the leading tokens that differ
RECURSIVE SkipWhileNot(_, _)
SkipWhileNot(toks, name) ==
    IF toks = <<>> THEN <<>>
    ELSE IF Head(toks) # name THEN SkipWhileNot(Tail(toks), name)
    ELSE toks

\* Iterator::nth(n), n counted from 0
Nth(toks, n) ==
    IF Len(toks) > n THEN [some |-> TRUE, val |-> toks[n + 1]]
    ELSE [some |-> FALSE, val |-> <<>>]

(***************************************************************************)
(* Results: Ok(value) or Err(error kind).                                  *)
(***************************************************************************)
Ok(v) == [ok |-> TRUE, val |-> v, err |-> "none"]

Err(e) == [ok |-> FALSE, val |-> <<>>, err |-> e]

(***************************************************************************)
(* fn parse(text): the extractor.                                          *)
(***************************************************************************)
parse_nth1(text) ==
    LET r == Nth(SkipWhileNot(Split(text, Q), FieldName), 1)
    IN  IF r.some THEN Ok(r.val) ELSE Err("ParseError")

parse(text) ==
    LET r == Nth(SkipWhileNot(Split(text, Q), FieldName), 2)
    IN  IF r.some THEN Ok(r.val) ELSE Err("ParseError")

(***************************************************************************)
(* semver::Version: the value, Version::parse, Ord and Display.            *)
(* A version is [major, minor, patch, pre, build]; pre and build are       *)
(* sequences of identifiers, an identifier being Numeric(n) or             *)
(* AlphaNumeric(s).                                                        *)
(***************************************************************************)
Numeric(n) == [num |-> TRUE, n |-> n, s |-> <<>>]

AlphaNumeric(s) == [num |-> FALSE, n |-> 0, s |-> s]

Version(ma, mi, pa, pre, build) ==
    [major |-> ma, minor |-> mi, patch |-> pa, pre |-> pre, build |-> build]

AllDigits(s) == s # <<>> /\ \A i \in 1..Len(s) : IsDigit(s[i])

RECURSIVE NumVal(_)
NumVal(s) ==
    IF s = <<>> THEN 0
    ELSE NumVal(SubSeq(s, 1, Len(s) - 1)) * 10 + DigitVal(s[Len(s)])

\* a numeric component: digits only, no leading zero
IsNumericPart(s) == AllDigits(s) /\ (Len(s) > 1 => s[1] # "0")

IsIdentPart(s) ==
    /\ s # <<>>
    /\ \A i \in 1..Len(s) : IsAlnumHyphen(s[i])
    /\ (AllDigits(s) => IsNumericPart(s))

ToIdent(s) == IF AllDigits(s) THEN Numeric(NumVal(s)) ELSE AlphaNumeric(s)

\* position of the first occurrence of c in s, 0 when there is none
FirstIndex(s, c) ==
    IF \E i \in 1..Len(s) : s[i] = c
    THEN CHOOSE i \in 1..Len(s) : s[i] = c /\ \A j \in 1..(i - 1) : s[j] # c
    ELSE 0

IdentsOk(s) == LET ps == Split(s, ".") IN \A i \in 1..Len(ps) : IsIdentPart(ps[i])

Idents(s) == LET ps == Split(s, ".") IN [i \in 1..Len(ps) |-> ToIdent(ps[i])]

VersionParse(text) ==
    LET plus    == FirstIndex(text, "+")
        nobuild == IF plus = 0 THEN text ELSE SubSeq(text, 1, plus - 1)
        buildtx == IF plus = 0 THEN <<>> ELSE SubSeq(text, plus + 1, Len(text))
        dash    == FirstIndex(nobuild, "-")
        core    == IF dash = 0 THEN nobuild ELSE SubSeq(nobuild, 1, dash - 1)
        pretx   == IF dash = 0 THEN <<>> ELSE SubSeq(nobuild, dash + 1, Len(nobuild))
        nums    == Split(core, ".")
    IN  IF /\ Len(nums) = 3
           /\ \A i \in 1..3 : IsNumericPart(nums[i])
           /\ (dash # 0 => IdentsOk(pretx))
           /\ (plus # 0 => IdentsOk(buildtx))
        THEN Ok(Version(NumVal(nums[1]), NumVal(nums[2]), NumVal(nums[3]),
                        IF dash = 0 THEN <<>> ELSE Idents(pretx),
                        IF plus = 0 THEN <<>> ELSE Idents(buildtx)))
        ELSE Err("SemVerError")

CmpNat(a, b) == IF a < b THEN "Less" ELSE IF a > b THEN "Greater" ELSE "Equal"

\* String's Ord: lexicographic on bytes, a proper prefix is less
RECURSIVE CmpStr(_, _)
CmpStr(a, b) ==
    IF a = <<>> /\ b = <<>> THEN "Equal"
    ELSE IF a = <<>> THEN "Less"
    ELSE IF b = <<>> THEN "Greater"
    ELSE IF ByteOf(Head(a)) # ByteOf(Head(b)) THEN CmpNat(ByteOf(Head(a)), ByteOf(Head(b)))
    ELSE CmpStr(Tail(a), Tail(b))

\* Identifier's derived Ord: Numeric before AlphaNumeric, then by payload
CmpIdent(x, y) ==
    IF x.num /\ y.num THEN CmpNat(x.n, y.n)
    ELSE IF x.num THEN "Less"
    ELSE IF y.num THEN "Greater"
    ELSE CmpStr(x.s, y.s)

\* Vec's Ord: lexicographic, a proper prefix is less
RECURSIVE CmpIdents(_, _)
CmpIdents(a, b) ==
    IF a = <<>> /\ b = <<>> THEN "Equal"
    ELSE IF a = <<>> THEN "Less"
    ELSE IF b = <<>> THEN "Greater"
    ELSE IF CmpIdent(Head(a), Head(b)) # "Equal" THEN CmpIdent(Head(a), Head(b))
    ELSE CmpIdents(Tail(a), Tail(b))

\* the precedence of semantic versions with the pre-release lists compared
\* as plain lists (an empty list first)
VersionCmp_plainpre(a, b) ==
    IF a.major # b.major THEN CmpNat(a.major, b.major)
    ELSE IF a.minor # b.minor THEN CmpNat(a.minor, b.minor)
    ELSE IF a.patch # b.patch THEN CmpNat(a.patch, b.patch)
    ELSE CmpIdents(a.pre, b.pre)

\* Version's Ord: major, minor, patch numerically; then a version without
\* pre-release is greater than one with; build metadata is not looked at
VersionCmp(a, b) ==
    IF a.major # b.major THEN CmpNat(a.major, b.major)
    ELSE IF a.minor # b.minor THEN CmpNat(a.minor, b.minor)
    ELSE IF a.patch # b.patch THEN CmpNat(a.patch, b.patch)
    ELSE IF a.pre = <<>> /\ b.pre = <<>> THEN "Equal"
    ELSE IF a.pre = <<>> THEN "Greater"
    ELSE IF b.pre = <<>> THEN "Less"
    ELSE CmpIdents(a.pre, b.pre)

RECURSIVE FmtNat(_)
FmtNat(n) ==
    IF n < 10 THEN <<DigitChars[n + 1]>>
    ELSE FmtNat(n \div 10) \o <<DigitChars[(n % 10) + 1]>>

FmtIdent(x) == IF x.num THEN FmtNat(x.n) ELSE x.s

RECURSIVE FmtIdents(_)
FmtIdents(ids) ==
    IF ids = <<>> THEN <<>>
    ELSE IF Len(ids) = 1 THEN FmtIdent(ids[1])
    ELSE FmtIdent(ids[1]) \o <<".">> \o FmtIdents(Tail(ids))

\* Version's Display
VersionFmt(v) ==
    FmtNat(v.major) \o <<".">> \o FmtNat(v.minor) \o <<".">> \o FmtNat(v.patch)
    \o (IF v.pre = <<>> THEN <<>> ELSE <<"-">> \o FmtIdents(v.pre))
    \o (IF v.build = <<>> THEN <<>> ELSE <<"+">> \o FmtIdents(v.build))

(***************************************************************************)
(* fn cmp(current, cratesio): the comparator.  A Status is its variant and *)
(* the version it carries.                                                 *)
(***************************************************************************)
Status(variant, ver) == [variant |-> variant, ver |-> ver]

cmp_carries_current(current, cratesio) ==
    IF VersionCmp(current, cratesio) = "Less" THEN Status("Behind", current)
    ELSE IF VersionCmp(current, cratesio) = "Equal" THEN Status("Equal", current)
    ELSE Status("Ahead", current)

cmp(current, cratesio) ==
    IF VersionCmp(current, cratesio) = "Less" THEN Status("Behind", cratesio)
    ELSE IF VersionCmp(current, cratesio) = "Equal" THEN Status("Equal", cratesio)
    ELSE Status("Ahead", cratesio)

(***************************************************************************)
(* The inputs and the environment of one call.                             *)
(***************************************************************************)
V100 == <<"1", ".", "0", ".", "0">>
V210 == <<"2", ".", "1", ".", "0">>
V210b == <<"2", ".", "1", ".", "0", "+", "b">>
V210pre == <<"2", ".", "1", ".", "0", "-", "a", ".", "1">>
V300 == <<"3", ".", "0", ".", "0">>
V0dd2 == <<"0", ".", ".", "2">>

\* crate names and the caller's version texts
CrateNames == {<<"cratesiover">>, <<"papyrus">>}

VersionTexts == {V100, V210, V210b, V300, V0dd2}

BodyOf(vtext) == <<"{", Q>> \o FieldName \o <<Q, ":", Q>> \o vtext \o <<Q, "}">>

BodyNoField ==
    <<"{", Q, "e", "r", "r", "o", "r", "s", Q, ":", Q, "N", "o", "t", " ",
      "F", "o", "u", "n", "d", Q, "}">>

BodyTruncated == <<"{", Q>> \o FieldName \o <<Q, ":">>

\* the response bodies the registry may answer with
Bodies ==
    {BodyOf(V210), BodyOf(V210pre), BodyOf(V0dd2), BodyNoField, BodyTruncated, <<>>}

\* the HTTP status codes the registry may answer with
StatusCodes == {200, 404, 500}

EntryPoints == {"get", "query", "output_with_term", "output"}

Unset == [ok |-> FALSE, val |-> <<>>, err |-> "unset"]

IsSet(r) == r.ok \/ r.err # "unset"

UrlOf(name) == <<"https://crates.io/api/v1/crates/">> \o name

ProgressMsg == <<"bright_yellow", "Checking for later version...">>

FailedMsg == <<"bright_yellow", "Failed to query crates.io">>

(***************************************************************************)
(* The state of one call of get, query, output_with_term or output.        *)
(***************************************************************************)
VARIABLES
    pc,           \* the position in the code
    entry,        \* the function the caller called
    crate_name,   \* its crate_name argument
    version,      \* its version argument (text)
    current,      \* query's parsed version
    resp,         \* the transport's answer: "none", "get_err", "text_err" or "ok"
    resp_status,  \* the status code of the response
    resp_body,    \* the body of the response
    text,         \* web_req's result text
    slice,        \* parse's result
    get_ret,      \* the value get returns
    query_ret,    \* the value query returns
    print_line,   \* output_with_term's rendered line
    term_failed,  \* whether an operation of the terminal returned Err
    events,       \* what happened, in order: <<tag, data>>
    outcome,      \* "running", "returned" or "panicked"
    ret,          \* what the entry point returned
    arg,          \* the argument of a function applied on its own
    res           \* and its result

vars ==
    <<pc, entry, crate_name, version, current, resp, resp_status, resp_body,
      text, slice, get_ret, query_ret, print_line, term_failed, events, outcome, ret, arg, res>>

callvars ==
    <<pc, entry, crate_name, version, current, resp, resp_status, resp_body,
      text, slice, get_ret, query_ret, print_line, term_failed, events, outcome, ret>>

inputs == <<entry, crate_name, version>>

net == <<resp, resp_status, resp_body>>

pure == <<arg, res>>

Event(tag, data) == <<tag, data>>

Log(tag, data) == events' = Append(events, Event(tag, data))

CountTag(tag) == Cardinality({i \in 1..Len(events) : events[i][1] = tag})

\* the network requests issued so far
Requests == CountTag("http_get")

Stepped(name) == \E i \in 1..Len(events) : events[i] = Event("step", <<name>>)

InitCall ==
    /\ pc = "idle"
    /\ entry = "none"
    /\ crate_name = <<>>
    /\ version = <<>>
    /\ current = Unset
    /\ resp = "none"
    /\ resp_status = 0
    /\ resp_body = <<>>
    /\ text = <<>>
    /\ slice = <<>>
    /\ get_ret = Unset
    /\ query_ret = Unset
    /\ print_line = <<>>
    /\ term_failed = FALSE
    /\ events = <<>>
    /\ outcome = "running"
    /\ ret = Unset

Init == InitCall /\ arg = <<>> /\ res = Unset

FirstPc(e) ==
    IF e = "get" THEN "web_req"
    ELSE IF e = "query" THEN "query_version_parse"
    ELSE IF e = "output_with_term" THEN "owt_print"
    ELSE "output_new_terminal"

\* the caller calls an entry point (get takes no version)
Call ==
    /\ pc = "idle"
    /\ \E e \in EntryPoints, n \in CrateNames, v \in VersionTexts :
          /\ entry' = e
          /\ crate_name' = n
          /\ version' = IF e = "get" THEN <<>> ELSE v
          /\ pc' = FirstPc(e)
    /\ UNCHANGED <<current, net, text, slice, get_ret, query_ret, print_line,
                   term_failed, events, outcome, ret, pure>>

Return(value) == pc' = "done" /\ outcome' = "returned" /\ ret' = value

Panic == pc' = "done" /\ outcome' = "panicked" /\ ret' = ret

(***************************************************************************)
(* pub fn output: makes the default terminal, then output_with_term.       *)
(***************************************************************************)
OutputNewTerminal ==
    /\ pc = "output_new_terminal"
    /\ \/ pc' = "owt_print" /\ UNCHANGED <<outcome, ret>>
       \/ Return(Err("io"))
    /\ UNCHANGED <<inputs, current, net, text, slice, get_ret, query_ret,
                   print_line, term_failed, events, pure>>

(***************************************************************************)
(* pub fn output_with_term, up to its call of query.                       *)
(***************************************************************************)
\* print! of the progress message, then stdout().flush(), whose result is
\* dropped
OwtPrintProgress ==
    /\ pc = "owt_print"
    /\ Log("stdout", ProgressMsg)
    /\ pc' = "query_version_parse"
    /\ UNCHANGED <<inputs, current, net, text, slice, get_ret, query_ret,
                   print_line, term_failed, outcome, ret, pure>>

(***************************************************************************)
(* pub fn query: Version::parse(version)?, then get(crate_name)?, then cmp.*)
(***************************************************************************)
QueryVersionParse_after_get ==
    /\ pc = "query_version_parse"
    /\ events' = events \o <<Event("http_get", UrlOf(crate_name)),
                             Event("step", <<"Version::parse(version)">>)>>
    /\ LET r == VersionParse(version)
       IN  IF r.ok
           THEN current' = r /\ pc' = "web_req_wait" /\ UNCHANGED query_ret
           ELSE query_ret' = r /\ pc' = "query_return" /\ UNCHANGED current
    /\ UNCHANGED <<inputs, net, text, slice, get_ret, print_line, term_failed,
                   outcome, ret, pure>>

QueryVersionParse ==
    /\ pc = "query_version_parse"
    /\ Log("step", <<"Version::parse(version)">>)
    /\ LET r == VersionParse(version)
       IN  IF r.ok
           THEN current' = r /\ pc' = "web_req" /\ UNCHANGED query_ret
           ELSE query_ret' = r /\ pc' = "query_return" /\ UNCHANGED current
    /\ UNCHANGED <<inputs, net, text, slice, get_ret, print_line, term_failed,
                   outcome, ret, pure>>

(***************************************************************************)
(* fn web_req: reqwest::get(url).map_err(..)?.text().map_err(..)           *)
(***************************************************************************)
\* the GET request goes out
WebReqSend ==
    /\ pc = "web_req"
    /\ events' = events \o <<Event("step", <<"web_req">>),
                             Event("http_get", UrlOf(crate_name))>>
    /\ pc' = "web_req_wait"
    /\ UNCHANGED <<inputs, current, net, text, slice, get_ret, query_ret,
                   print_line, term_failed, outcome, ret, pure>>

\* a failed request is tried again
WebReqGetErr_retry ==
    /\ pc = "web_req_wait"
    /\ resp' = "get_err"
    /\ IF Requests < 2
       THEN pc' = "web_req" /\ UNCHANGED get_ret
       ELSE get_ret' = Err("RequestError") /\ pc' = "get_return"
    /\ UNCHANGED <<inputs, current, resp_status, resp_body, text, slice,
                   query_ret, print_line, term_failed, events, outcome, ret, pure>>

\* reqwest::get fails (connection, DNS, timeout, ...)
WebReqGetErr ==
    /\ pc = "web_req_wait"
    /\ resp' = "get_err"
    /\ get_ret' = Err("RequestError")
    /\ pc' = "get_return"
    /\ UNCHANGED <<inputs, current, resp_status, resp_body, text, slice,
                   query_ret, print_line, term_failed, events, outcome, ret, pure>>

\* reqwest::get returns a response, of any status
WebReqGetOk ==
    /\ pc = "web_req_wait"
    /\ \E st \in StatusCodes : resp_status' = st
    /\ pc' = "web_req_text"
    /\ UNCHANGED <<inputs, current, resp, resp_body, text, slice, get_ret,
                   query_ret, print_line, term_failed, events, outcome, ret, pure>>

\* Response::text fails (the body cannot be read or decoded)
WebReqTextErr ==
    /\ pc = "web_req_text"
    /\ resp' = "text_err"
    /\ get_ret' = Err("RequestError")
    /\ pc' = "get_return"
    /\ UNCHANGED <<inputs, current, resp_status, resp_body, text, slice,
                   query_ret, print_line, term_failed, events, outcome, ret, pure>>

\* a text that turns a failure status into an error
web_req_text_checks_status(status, body) ==
    IF status \in 200..299 THEN Ok(body) ELSE Err("RequestError")

\* what web_req returns for a response whose body was read
web_req_text(status, body) == Ok(body)

WebReqTextOk ==
    /\ pc = "web_req_text"
    /\ resp' = "ok"
    /\ \E b \in Bodies :
          /\ resp_body' = b
          /\ LET r == web_req_text(resp_status, b)
             IN  IF r.ok
                 THEN text' = r.val /\ pc' = "parse" /\ UNCHANGED get_ret
                 ELSE get_ret' = r /\ pc' = "get_return" /\ UNCHANGED text
    /\ UNCHANGED <<inputs, current, resp_status, slice, query_ret, print_line,
                   term_failed, events, outcome, ret, pure>>

(***************************************************************************)
(* pub fn get: Version::parse(parse(&web_req(crate_name)?)?).map_err(..)   *)
(***************************************************************************)
\* a failed extraction is passed on as an empty text
GetParse_no_short_circuit ==
    /\ pc = "parse"
    /\ Log("step", <<"parse">>)
    /\ LET r == parse(text)
       IN  slice' = (IF r.ok THEN r.val ELSE <<>>)
    /\ pc' = "get_version_parse"
    /\ UNCHANGED <<inputs, current, net, text, get_ret, query_ret, print_line,
                   term_failed, outcome, ret, pure>>

GetParse ==
    /\ pc = "parse"
    /\ Log("step", <<"parse">>)
    /\ LET r == parse(text)
       IN  IF r.ok
           THEN slice' = r.val /\ pc' = "get_version_parse" /\ UNCHANGED get_ret
           ELSE get_ret' = r /\ pc' = "get_return" /\ UNCHANGED slice
    /\ UNCHANGED <<inputs, current, net, text, query_ret, print_line,
                   term_failed, outcome, ret, pure>>

GetVersionParse ==
    /\ pc = "get_version_parse"
    /\ Log("step", <<"Version::parse(max_version)">>)
    /\ get_ret' = VersionParse(slice)
    /\ pc' = "get_return"
    /\ UNCHANGED <<inputs, current, net, text, slice, query_ret, print_line,
                   term_failed, outcome, ret, pure>>

GetReturn ==
    /\ pc = "get_return"
    /\ IF entry = "get"
       THEN Return(get_ret)
       ELSE pc' = "query_cmp" /\ UNCHANGED <<outcome, ret>>
    /\ UNCHANGED <<inputs, current, net, text, slice, get_ret, query_ret,
                   print_line, term_failed, events, pure>>

\* Ok(cmp(&version, get(crate_name)?))
QueryCmp ==
    /\ pc = "query_cmp"
    /\ IF get_ret.ok
       THEN /\ Log("step", <<"cmp">>)
            /\ query_ret' = Ok(cmp(current.val, get_ret.val))
       ELSE /\ query_ret' = get_ret
            /\ UNCHANGED events
    /\ pc' = "query_return"
    /\ UNCHANGED <<inputs, current, net, text, slice, get_ret, print_line,
                   term_failed, outcome, ret, pure>>

QueryReturn ==
    /\ pc = "query_return"
    /\ IF entry = "query"
       THEN Return(query_ret)
       ELSE pc' = "owt_match" /\ UNCHANGED <<outcome, ret>>
    /\ UNCHANGED <<inputs, current, net, text, slice, get_ret, query_ret,
                   print_line, term_failed, events, pure>>

(***************************************************************************)
(* pub fn output_with_term, after query: render the line, overwrite the    *)
(* console line through the Writer, then writeln.                          *)
(***************************************************************************)
\* the match on query's result: the colour, then the text
Render(q, v) ==
    IF ~q.ok THEN FailedMsg
    ELSE IF q.val.variant = "Equal"
    THEN <<"bright_green", "Running the latest papyrus version ">>
         \o VersionFmt(q.val.ver)
    ELSE IF q.val.variant = "Behind"
    THEN <<"bright_red", "The current papyrus version ">> \o v
         \o <<" is old, please update to ">> \o VersionFmt(q.val.ver)
    ELSE <<"bright_purple", "The current papyrus version ">> \o v
         \o <<" is ahead of the crates.io version ">> \o VersionFmt(q.val.ver)

OwtMatch ==
    /\ pc = "owt_match"
    /\ print_line' = Render(query_ret, version)
    /\ pc' = "owt_move"
    /\ UNCHANGED <<inputs, current, net, text, slice, get_ret, query_ret,
                   term_failed, events, outcome, ret, pure>>

\* Writer::overwrite_current_console_line: wtr.move_to_first_column()?
\* an Err comes back through ? and is unwrapped by output_with_term
TermMoveToFirstColumn ==
    /\ pc = "owt_move"
    /\ \/ /\ Log("term", <<"move_to_first_column">>)
          /\ pc' = "owt_clear"
          /\ UNCHANGED <<term_failed, outcome, ret>>
       \/ /\ term_failed' = TRUE
          /\ Panic
          /\ UNCHANGED events
    /\ UNCHANGED <<inputs, current, net, text, slice, get_ret, query_ret,
                   print_line, pure>>

\* wtr.clear_to_screen_end()?
TermClearToScreenEnd ==
    /\ pc = "owt_clear"
    /\ \/ /\ Log("term", <<"clear_to_screen_end">>)
          /\ pc' = "owt_write"
          /\ UNCHANGED <<term_failed, outcome, ret>>
       \/ /\ term_failed' = TRUE
          /\ Panic
          /\ UNCHANGED events
    /\ UNCHANGED <<inputs, current, net, text, slice, get_ret, query_ret,
                   print_line, pure>>

\* wtr.write(line), whose result overwrite_current_console_line returns and
\* output_with_term unwraps
TermWriteLine ==
    /\ pc = "owt_write"
    /\ \/ /\ Log("term_write", print_line)
          /\ pc' = "owt_writeln"
          /\ UNCHANGED <<term_failed, outcome, ret>>
       \/ /\ term_failed' = TRUE
          /\ Panic
          /\ UNCHANGED events
    /\ UNCHANGED <<inputs, current, net, text, slice, get_ret, query_ret,
                   print_line, pure>>

\* writeln!(wtr, ""): Writer::write passes the line terminator to the
\* terminal and unwraps the result
OwtWriteln ==
    /\ pc = "owt_writeln"
    /\ \/ /\ Log("term_write", <<"\n">>)
          /\ pc' = "owt_return"
          /\ UNCHANGED <<term_failed, outcome, ret>>
       \/ /\ term_failed' = TRUE
          /\ Panic
          /\ UNCHANGED events
    /\ UNCHANGED <<inputs, current, net, text, slice, get_ret, query_ret,
                   print_line, pure>>

\* output_with_term returns (), which output wraps in Ok
OwtReturn ==
    /\ pc = "owt_return"
    /\ Return(Ok(<<>>))
    /\ UNCHANGED <<inputs, current, net, text, slice, get_ret, query_ret,
                   print_line, term_failed, events, pure>>

Next ==
    \/ Call
    \/ OutputNewTerminal
    \/ OwtPrintProgress
    \/ QueryVersionParse
    \/ WebReqSend
    \/ WebReqGetErr
    \/ WebReqGetOk
    \/ WebReqTextErr
    \/ WebReqTextOk
    \/ GetParse
    \/ GetVersionParse
    \/ GetReturn
    \/ QueryCmp
    \/ QueryReturn
    \/ OwtMatch
    \/ TermMoveToFirstColumn
    \/ TermClearToScreenEnd
    \/ TermWriteLine
    \/ OwtWriteln
    \/ OwtReturn

Spec == Init /\ [][Next]_vars

(***************************************************************************)
(* The extractor applied on its own: parse on every text built from at     *)
(* most MaxPieces pieces (a quote, the field name, a colon, a version      *)
(* text).                                                                  *)
(***************************************************************************)
Pieces == {<<Q>>, FieldName, <<":">>, V0dd2}

RECURSIVE TextsOf(_)
TextsOf(n) ==
    IF n = 0 THEN {<<>>}
    ELSE {p \o t : p \in Pieces, t \in TextsOf(n - 1)}

Texts == UNION {TextsOf(n) : n \in 0..MaxPieces}

InitParse == InitCall /\ arg \in Texts /\ res = Unset

ParseApply ==
    /\ ~IsSet(res)
    /\ res' = parse(arg)
    /\ UNCHANGED <<callvars, arg>>

SpecParse == InitParse /\ [][ParseApply]_vars

(***************************************************************************)
(* The comparator applied on its own: cmp on every pair of versions with   *)
(* components in 0..MaxNum, a pre-release list of PreLists and a build of  *)
(* BuildLists.                                                             *)
(***************************************************************************)
PreLists ==
    {<<>>, <<Numeric(0)>>, <<Numeric(1)>>, <<AlphaNumeric(<<"a">>)>>,
     <<Numeric(0), AlphaNumeric(<<"a">>)>>}

BuildLists == {<<>>, <<AlphaNumeric(<<"b">>)>>}

Versions ==
    {Version(ma, mi, pa, pre, bld) :
        ma \in 0..MaxNum, mi \in 0..MaxNum, pa \in 0..MaxNum,
        pre \in PreLists, bld \in BuildLists}

InitCmp == InitCall /\ arg \in Versions \X Versions /\ res = Unset

CmpApply ==
    /\ ~IsSet(res)
    /\ res' = Ok(cmp(arg[1], arg[2]))
    /\ UNCHANGED <<callvars, arg>>

SpecCmp == InitCmp /\ [][CmpApply]_vars

(***************************************************************************)
(* Properties.                                                             *)
(***************************************************************************)
IsErr(r, e) == ~r.ok /\ r.err = e

SameResult(x, y) == x.ok = y.ok /\ x.err = y.err /\ (x.ok => x.val = y.val)

RECURSIVE Join(_, _)
Join(toks, sep) ==
    IF toks = <<>> THEN <<>>
    ELSE IF Len(toks) = 1 THEN toks[1]
    ELSE toks[1] \o <<sep>> \o Join(Tail(toks), sep)

MinOf(S) == CHOOSE i \in S : \A j \in S : i <= j

QuotedField(vtext) == <<Q>> \o FieldName \o <<Q, ":", Q>> \o vtext \o <<Q>>

\* C3: parse splits the text on the double quote, finds the first token
\* equal to max_version and returns, unchanged, the token two positions
\* after it; it fails with ParseError exactly when no token equals
\* max_version or fewer than two tokens follow that token; the text it
\* returns is not validated ("max_version":"0..2" yields 0..2).
C3_ParseExtracts ==
    IsSet(res) =>
        LET toks == Split(arg, Q)
            hits == {i \in 1..Len(toks) : toks[i] = FieldName}
        IN  /\ Join(toks, Q) = arg
            /\ \A i \in 1..Len(toks) : \A k \in 1..Len(toks[i]) : toks[i][k] # Q
            /\ IF hits # {} /\ MinOf(hits) + 2 <= Len(toks)
               THEN res.ok /\ res.val = toks[MinOf(hits) + 2]
               ELSE IsErr(res, "ParseError")
            /\ (arg = QuotedField(V0dd2) => res.ok /\ res.val = V0dd2)

\* the text "max_version":"0..2" was parsed to 0..2, which is no version
C3_Witness ==
    /\ arg = QuotedField(V0dd2)
    /\ res.ok
    /\ res.val = V0dd2
    /\ ~VersionParse(V0dd2).ok

\* C2: cmp returns Behind exactly when current < registry, Equal exactly
\* when they compare equal, Ahead exactly when current > registry, and the
\* Status carries the registry's version in all three cases.
C2_CmpClassifies ==
    IsSet(res) =>
        LET cur == arg[1]
            reg == arg[2]
        IN  /\ res.val.ver = reg
            /\ res.val.variant \in {"Behind", "Equal", "Ahead"}
            /\ (res.val.variant = "Behind" <=> VersionCmp(cur, reg) = "Less")
            /\ (res.val.variant = "Equal" <=> VersionCmp(cur, reg) = "Equal")
            /\ (res.val.variant = "Ahead" <=> VersionCmp(cur, reg) = "Greater")

\* cmp answered Ahead, carrying the registry's version, which differs from
\* the caller's
C2_Witness ==
    /\ IsSet(res)
    /\ res.val.variant = "Ahead"
    /\ arg[1].major > arg[2].major
    /\ res.val.ver = arg[2]
    /\ arg[1] # arg[2]

\* the consequence of C2 for query: a successful query whose response body
\* carries the version R and whose caller's version is C returns the variant
\* of comparing C with R, carrying R
QueryClassifies ==
    IsSet(query_ret) /\ query_ret.ok =>
        LET c == VersionParse(version).val
            r == VersionParse(parse(resp_body).val).val
        IN  /\ query_ret.val.ver = r
            /\ (query_ret.val.variant = "Behind" <=> VersionCmp(c, r) = "Less")
            /\ (query_ret.val.variant = "Equal" <=> VersionCmp(c, r) = "Equal")
            /\ (query_ret.val.variant = "Ahead" <=> VersionCmp(c, r) = "Greater")

SameTriple(a, b) == a.major = b.major /\ a.minor = b.minor /\ a.patch = b.patch

\* C9: the comparison of versions is a total order: reflexive,
\* antisymmetric, transitive; major, minor and patch compare numerically,
\* a pre-release version is below its release, and versions that differ
\* only in build metadata compare Equal (and cmp answers Equal for them).
C9_TotalOrder ==
    LET a == arg[1]
        b == arg[2]
    IN  /\ VersionCmp(a, a) = "Equal"
        /\ VersionCmp(a, b) \in {"Less", "Equal", "Greater"}
        /\ (VersionCmp(a, b) = "Less" <=> VersionCmp(b, a) = "Greater")
        /\ (VersionCmp(a, b) = "Equal" <=> VersionCmp(b, a) = "Equal")
        /\ \A c \in Versions :
              LET ab == VersionCmp(a, b)
                  bc == VersionCmp(b, c)
                  ac == VersionCmp(a, c)
              IN  /\ (ab # "Greater" /\ bc # "Greater" => ac # "Greater")
                  /\ (ab = "Less" /\ bc # "Greater" => ac = "Less")
                  /\ (ab # "Greater" /\ bc = "Less" => ac = "Less")
        /\ (a.major < b.major => VersionCmp(a, b) = "Less")
        /\ (a.major = b.major /\ a.minor < b.minor => VersionCmp(a, b) = "Less")
        /\ (a.major = b.major /\ a.minor = b.minor /\ a.patch < b.patch
               => VersionCmp(a, b) = "Less")
        /\ (SameTriple(a, b) /\ a.pre # <<>> /\ b.pre = <<>>
               => VersionCmp(a, b) = "Less")
        /\ (SameTriple(a, b) /\ a.pre = b.pre
               => /\ VersionCmp(a, b) = "Equal"
                  /\ (IsSet(res) => res.val.variant = "Equal"))

\* cmp was applied to a pre-release and its release that also differ in
\* build metadata
C9_Witness ==
    /\ IsSet(res)
    /\ SameTriple(arg[1], arg[2])
    /\ arg[1].pre # <<>>
    /\ arg[2].pre = <<>>
    /\ arg[1].build # arg[2].build
    /\ res.val.variant = "Behind"

Presenters == {"output_with_term", "output"}

GetSteps == {"web_req", "parse", "Version::parse(max_version)", "cmp"}

\* the position in events of the first event with this tag and data, 0 when
\* there is none
FirstEvent(tag, data) ==
    IF \E i \in 1..Len(events) : events[i] = Event(tag, data)
    THEN MinOf({i \in 1..Len(events) : events[i] = Event(tag, data)})
    ELSE 0

\* C1: query parses the caller's version text before any network activity:
\* when the text is no valid version, query returns SemVerError and no
\* request is issued, whatever the transport would have answered.
C1_ParseBeforeNetwork ==
    /\ (entry # "get" =>
           \A i \in 1..Len(events) :
               events[i][1] = "http_get" =>
                   \E j \in 1..(i - 1) :
                       events[j] = Event("step", <<"Version::parse(version)">>))
    /\ (entry # "get" /\ entry # "none" /\ ~VersionParse(version).ok =>
           /\ Requests = 0
           /\ resp = "none"
           /\ \A n \in GetSteps : ~Stepped(n)
           /\ (IsSet(query_ret) => IsErr(query_ret, "SemVerError"))
           /\ (pc = "done" /\ entry = "query" =>
                  outcome = "returned" /\ IsErr(ret, "SemVerError")))

\* query returned SemVerError for the text 0..2 and no request was issued
C1_Witness ==
    /\ entry = "query"
    /\ version = V0dd2
    /\ outcome = "returned"
    /\ IsErr(ret, "SemVerError")
    /\ Requests = 0

\* C4: get runs fetch, then extract, then the version parse and returns the
\* first failure without running the later steps: RequestError when the
\* fetch fails, else ParseError when the body has no extractable
\* max_version, else SemVerError when the extracted text is no version, else
\* the parsed version; query passes each of the three errors on unchanged.
C4_GetShortCircuits ==
    /\ (IsSet(get_ret) =>
           IF resp \in {"get_err", "text_err"}
           THEN /\ IsErr(get_ret, "RequestError")
                /\ ~Stepped("parse")
                /\ ~Stepped("Version::parse(max_version)")
           ELSE /\ resp = "ok"
                /\ Stepped("parse")
                /\ IF ~parse(resp_body).ok
                   THEN /\ IsErr(get_ret, "ParseError")
                        /\ ~Stepped("Version::parse(max_version)")
                   ELSE /\ Stepped("Version::parse(max_version)")
                        /\ IF ~VersionParse(parse(resp_body).val).ok
                           THEN IsErr(get_ret, "SemVerError")
                           ELSE /\ get_ret.ok
                                /\ get_ret.val = VersionParse(parse(resp_body).val).val)
    /\ (Stepped("parse") =>
           /\ FirstEvent("step", <<"web_req">>) > 0
           /\ FirstEvent("step", <<"web_req">>) < FirstEvent("step", <<"parse">>))
    /\ (Stepped("Version::parse(max_version)") =>
           /\ Stepped("parse")
           /\ FirstEvent("step", <<"parse">>)
                < FirstEvent("step", <<"Version::parse(max_version)">>))
    /\ (IsSet(query_ret) /\ IsSet(get_ret) /\ ~get_ret.ok =>
           /\ ~query_ret.ok
           /\ query_ret.err = get_ret.err
           /\ ~Stepped("cmp"))
    /\ (pc = "done" /\ entry = "get" => outcome = "returned" /\ SameResult(ret, get_ret))
    /\ (pc = "done" /\ entry = "query" => outcome = "returned" /\ SameResult(ret, query_ret))

\* query returned the ParseError of get, which had a response and did not
\* parse a version from it
C4_Witness ==
    /\ entry = "query"
    /\ outcome = "returned"
    /\ resp = "ok"
    /\ IsErr(get_ret, "ParseError")
    /\ IsErr(ret, "ParseError")
    /\ ~Stepped("Version::parse(max_version)")

\* C6: one call of get or query issues at most one request and does not
\* retry: after a transport failure it ends with RequestError without a
\* second request, and a successful call has issued exactly one.
C6_AtMostOneRequest ==
    /\ Requests <= 1
    /\ (IsSet(get_ret) => Requests = 1)
    /\ (resp \in {"get_err", "text_err"} =>
           /\ Requests = 1
           /\ IsErr(get_ret, "RequestError")
           /\ pc \notin {"web_req", "web_req_wait", "web_req_text"})
    /\ (pc = "done" /\ entry \in {"get", "query"} /\ resp # "none" =>
           /\ Requests = 1
           /\ (resp \in {"get_err", "text_err"} => IsErr(ret, "RequestError")))
    /\ (pc = "done" /\ entry \in {"get", "query"} /\ ret.ok => Requests = 1)

\* get returned RequestError after a failed request, having issued one
C6_Witness ==
    /\ entry = "get"
    /\ resp = "get_err"
    /\ outcome = "returned"
    /\ IsErr(ret, "RequestError")
    /\ Requests = 1

\* C8: the result of the fetch and of get does not depend on the status
\* code: the body of a response of any status is returned as the text and
\* processed as any other, so that a non-2xx body without the field gives
\* ParseError, and the result is a function of the body alone.
C8_StatusIgnored ==
    resp = "ok" =>
        /\ text = resp_body
        /\ ~IsErr(get_ret, "RequestError")
        /\ (IsSet(get_ret) =>
               LET r == parse(resp_body)
               IN  IF r.ok THEN SameResult(get_ret, VersionParse(r.val))
                   ELSE IsErr(get_ret, "ParseError"))

\* a 404 response whose body lacks the field gave ParseError
C8_Witness ==
    /\ resp = "ok"
    /\ resp_status = 404
    /\ resp_body = BodyNoField
    /\ outcome = "returned"
    /\ entry = "get"
    /\ IsErr(ret, "ParseError")

IsTermEvent(e) == e[1] \in {"term", "term_write"}

\* what the terminal was made to do, in order
TermEvents == SelectSeq(events, IsTermEvent)

\* the colour and the message a query result is reported with
ExpectedHead(q) ==
    IF ~q.ok THEN FailedMsg
    ELSE IF q.val.variant = "Equal"
    THEN <<"bright_green", "Running the latest papyrus version ">>
    ELSE IF q.val.variant = "Behind"
    THEN <<"bright_red", "The current papyrus version ">>
    ELSE <<"bright_purple", "The current papyrus version ">>

\* the terminal's events of a complete run that rendered this line
FullTermEvents(line) ==
    <<Event("term", <<"move_to_first_column">>),
      Event("term", <<"clear_to_screen_end">>),
      Event("term_write", line),
      Event("term_write", <<"\n">>)>>

IsPrefix(p, q) == Len(p) <= Len(q) /\ SubSeq(q, 1, Len(p)) = p

\* C5: for every kind of query failure the presenter does not panic: it
\* renders the generic failure message, writes it to the sink and returns
\* normally.
C5_QueryFailureNoPanic ==
    entry \in Presenters /\ IsSet(query_ret) /\ ~query_ret.ok /\ pc = "done" =>
        /\ outcome = "returned"
        /\ \E i \in 1..Len(events) : events[i] = Event("term_write", FailedMsg)

\* what holds of C5 in the code: a failed query is rendered as the generic
\* message and gets no panic of its own; the presenter returns normally
\* unless an operation of the terminal fails
QueryFailureRendered ==
    entry \in Presenters /\ IsSet(query_ret) /\ ~query_ret.ok =>
        /\ (pc \notin {"query_return", "owt_match"} => print_line = FailedMsg)
        /\ (outcome = "panicked" => term_failed)
        /\ (pc = "done" /\ ~term_failed =>
               /\ outcome = "returned"
               /\ TermEvents = FullTermEvents(FailedMsg))

\* C7: when the sink fails to accept the text or the line terminator,
\* output reports it to its caller as a returned write error; a sink write
\* failure never panics.
C7_SinkFailureReturned ==
    entry = "output" /\ term_failed /\ pc = "done" =>
        outcome = "returned" /\ IsErr(ret, "io")

\* what holds of C7 in the code: every failure of a terminal operation ends
\* the call in a panic, and the only error output returns is that of
\* making the terminal, before anything is printed
SinkFailurePanics ==
    /\ (term_failed => pc = "done" /\ outcome = "panicked")
    /\ (outcome = "panicked" => term_failed)
    /\ (entry = "output" /\ IsErr(ret, "io") => events = <<>> /\ ~term_failed)

\* C10: in every run of output_with_term the progress message goes to
\* standard output before the query (and any request) starts; nothing is
\* written to the terminal before the query has completed; after it, the
\* terminal is moved to the first column and cleared, exactly one result
\* line is written (by the query's outcome), then exactly one line
\* terminator.
C10_EventOrder ==
    entry \in Presenters =>
        /\ (events # <<>> => events[1] = Event("stdout", ProgressMsg))
        /\ CountTag("stdout") <= 1
        /\ (TermEvents # <<>> => IsSet(query_ret))
        /\ (pc = "done" /\ IsSet(query_ret) =>
               /\ TermEvents = FullTermEvents(print_line)
               /\ IsPrefix(ExpectedHead(query_ret), print_line))

\* what holds of C10 in the code: the order of the events in every run, and
\* the full sequence in every run that returns
PresenterOrder ==
    entry \in Presenters =>
        /\ (events # <<>> => events[1] = Event("stdout", ProgressMsg))
        /\ CountTag("stdout") <= 1
        /\ (TermEvents # <<>> =>
               /\ IsSet(query_ret)
               /\ IsPrefix(TermEvents, FullTermEvents(print_line))
               /\ IsPrefix(ExpectedHead(query_ret), print_line))
        /\ (outcome = "returned" /\ IsSet(query_ret) =>
               TermEvents = FullTermEvents(print_line))

=============================================================================
